---- MODULE Spec2Model ----
(***************************************************************************)
(* A model of the Financial-Rag-Agent retrieval-augmented query pipeline:  *)
(*   - the recursive token-aware chunker (parse_and_chunk.py),             *)
(*   - the retrieval store over a FAISS flat index (embed_and_store.py),   *)
(*   - the query orchestrator (query_agent.py).                            *)
(* Text is a sequence of one-character strings.  Each part of the program  *)
(* has its own specification over the shared variables: SpecChunk,         *)
(* SpecStore and SpecAgent.                                                *)
(***************************************************************************)
EXTENDS Integers, Sequences, FiniteSets, TLC

VARIABLES
    doc,            \* chunker: the text handed to split_text_into_chunks
    size,           \* chunker: chunk_size_tokens
    overlap,        \* chunker: chunk_overlap_tokens
    chunks,         \* chunker: the list split_text_into_chunks returned
    chunkPc,        \* chunker: "call" before the call, "done" after it
    metaFile,       \* store: the file at CHUNK_METADATA_PATH
    indexFile,      \* store: the file at FAISS_INDEX_PATH
    model,          \* store: self.model is set (the embedding model loaded)
    index,          \* store: self.index (present = not None, vecs = vectors)
    chunks_metadata,\* store: self.chunks_metadata
    loaded,         \* store: what this pipeline's last load_or_create_index did
    last,           \* store: the call that completed last, with what it returned
    agentPc,        \* agent: the stage answer_query is at
    original_query, \* agent: the question handed to answer_query
    sub_queries,    \* agent: sub_queries
    decomposed,     \* agent: decomposition replaced sub_queries in this call
    subIdx,         \* agent: position of the retrieval loop in sub_queries
    all_retrieved_chunks,   \* agent: results accumulated by the loop
    final_retrieved_chunks, \* agent: the deduplicated results
    synthesis,      \* agent: what _synthesize_answer returned
    output,         \* agent: what answer_query returned
    log,            \* agent: the calls and stages of this answer_query, in order
    llm_errors,     \* agent: the stages whose generation call raised
    mainPc,         \* main: the step run_challenge is at
    environ,        \* main: the environment's GOOGLE_API_KEY, set or not
    GOOGLE_API_KEY, \* main: the module-level GOOGLE_API_KEY
    all_results,    \* main: the queries answer_query was called with
    data_dir,       \* filings: the extracted text of every .htm file in DATA_DIR
    calls,          \* split steps: the _recursive_split calls still to be made
    loop            \* split steps: the hard split loop (tokens, start_token_idx)

chunkVars == <<doc, size, overlap, chunks, chunkPc>>
storeVars == <<metaFile, indexFile, model, index, chunks_metadata, loaded, last>>
agentVars ==
    <<agentPc, original_query, sub_queries, decomposed, subIdx, all_retrieved_chunks,
      final_retrieved_chunks, synthesis, output, log, llm_errors>>
mainVars == <<mainPc, environ, GOOGLE_API_KEY, all_results>>
filingVars == <<data_dir>>
splitVars == <<calls, loop>>
vars == <<chunkVars, storeVars, agentVars, mainVars, filingVars, splitVars>>

(***************************************************************************)
(* Bounds of the model.                                                    *)
(***************************************************************************)
MaxDocLen == 5
MaxChunkSize == 3
MaxCorpus == 2
MaxSplitLen == 4
MaxUnderrun == 2

Max(a, b) == IF a >= b THEN a ELSE b
Min(a, b) == IF a <= b THEN a ELSE b

(***************************************************************************)
(* Text helpers: Python's str.strip, str.join and str.split.               *)
(***************************************************************************)
NL == "\n"
SP == " "
Whitespace == {SP, NL}
Alphabet == {"a", SP, NL}

RECURSIVE lstrip(_)
lstrip(t) ==
    IF t # <<>> /\ t[1] \in Whitespace THEN lstrip(Tail(t)) ELSE t

RECURSIVE rstrip(_)
rstrip(t) ==
    IF t # <<>> /\ t[Len(t)] \in Whitespace
    THEN rstrip(SubSeq(t, 1, Len(t) - 1))
    ELSE t

\* str.strip(): leading and trailing whitespace removed.
strip(t) == rstrip(lstrip(t))

\* sep.join(parts)
RECURSIVE join(_, _)
join(sep, parts) ==
    IF parts = <<>> THEN <<>>
    ELSE IF Len(parts) = 1 THEN parts[1]
    ELSE parts[1] \o sep \o join(sep, Tail(parts))

\* Whether sep occurs in t at position i.
MatchAt(t, sep, i) ==
    /\ i + Len(sep) - 1 <= Len(t)
    /\ SubSeq(t, i, i + Len(sep) - 1) = sep

RECURSIVE SplitFrom(_, _, _, _)
SplitFrom(t, sep, i, cur) ==
    IF i > Len(t) THEN <<cur>>
    ELSE IF MatchAt(t, sep, i)
         THEN <<cur>> \o SplitFrom(t, sep, i + Len(sep), <<>>)
         ELSE SplitFrom(t, sep, i + 1, Append(cur, t[i]))

\* t.split(sep) for a non-empty sep: leftmost non-overlapping occurrences.
split(t, sep) == SplitFrom(t, sep, 1, <<>>)

(***************************************************************************)
(* The tokenizer.  tiktoken's cl100k_base is a byte-pair encoding; the     *)
(* model keeps a vocabulary of the single characters and two merges that   *)
(* cl100k_base has: a paragraph break "\n\n" is one token, and a space     *)
(* followed by a letter is one token.  A token is the text it decodes to.  *)
(***************************************************************************)
RECURSIVE get_tokens(_)
get_tokens(t) ==
    IF t = <<>> THEN <<>>
    ELSE IF Len(t) >= 2 /\ t[1] = NL /\ t[2] = NL
         THEN <<SubSeq(t, 1, 2)>> \o get_tokens(SubSeq(t, 3, Len(t)))
    ELSE IF Len(t) >= 2 /\ t[1] = SP /\ t[2] \notin Whitespace
         THEN <<SubSeq(t, 1, 2)>> \o get_tokens(SubSeq(t, 3, Len(t)))
    ELSE <<SubSeq(t, 1, 1)>> \o get_tokens(Tail(t))

\* encoding.decode(tokens): the concatenation of the tokens' texts.
RECURSIVE decode(_)
decode(toks) ==
    IF toks = <<>> THEN <<>> ELSE toks[1] \o decode(Tail(toks))

TokenCount(t) == Len(get_tokens(t))

(***************************************************************************)
(* split_text_into_chunks                                                  *)
(***************************************************************************)
separators == << <<NL, NL>>, <<NL>>, <<SP>> >>

\* The hard split by tokens of lines 137-143: windows of S tokens, the start
\* advancing by S - O.
RECURSIVE HardSplit(_, _, _, _)
HardSplit(tokens, start_token_idx, S, O) ==
    IF start_token_idx < Len(tokens)
    THEN LET end_token_idx == Min(start_token_idx + S, Len(tokens))
         IN  <<decode(SubSeq(tokens, start_token_idx + 1, end_token_idx))>>
             \o HardSplit(tokens, start_token_idx + (S - O), S, O)
    ELSE <<>>

\* Lines 175-184: the text of the last O tokens of the chunk sealed last.
OverlapText(last_chunk_text, O) ==
    LET last_chunk_tokens == get_tokens(last_chunk_text)
        overlap_start_index == Max(0, Len(last_chunk_tokens) - O)
    IN  decode(SubSeq(last_chunk_tokens, overlap_start_index + 1,
                      Len(last_chunk_tokens)))

\* Lines 169 and 191: a chunk is its parts joined by the separator, stripped.
SealChunk(current_separator, current_chunk_parts) ==
    strip(join(current_separator, current_chunk_parts))

\* One pass of the inner loop body (lines 160-187) over one sub_part.  st is
\* the loop's state: temp_chunks, current_chunk_parts and
\* current_chunk_token_count.
AddSubPart(st, sub_part, current_separator, S, O) ==
    LET sub_part_tokens == get_tokens(sub_part)
        separator_tokens_len ==
            IF st.current_chunk_parts # <<>>
            THEN Len(get_tokens(current_separator)) ELSE 0
        full == st.current_chunk_token_count + Len(sub_part_tokens)
                    + separator_tokens_len > S
        sealed ==
            IF full /\ st.current_chunk_parts # <<>>
            THEN Append(st.temp_chunks,
                        SealChunk(current_separator, st.current_chunk_parts))
            ELSE st.temp_chunks
        seeded == full /\ O > 0 /\ Len(sealed) > 0
        overlap_text ==
            IF seeded THEN OverlapText(sealed[Len(sealed)], O) ELSE <<>>
        parts0 == IF ~full THEN st.current_chunk_parts
                  ELSE IF seeded THEN <<overlap_text>> ELSE <<>>
        count0 == IF ~full THEN st.current_chunk_token_count
                  ELSE IF seeded THEN Len(get_tokens(overlap_text)) ELSE 0
    IN  [temp_chunks |-> sealed,
         current_chunk_parts |-> Append(parts0, sub_part),
         current_chunk_token_count |-> count0 + Len(sub_part_tokens)]

RECURSIVE Reassemble(_, _, _, _, _)
Reassemble(st, sub_parts, current_separator, S, O) ==
    IF sub_parts = <<>> THEN st
    ELSE Reassemble(AddSubPart(st, sub_parts[1], current_separator, S, O),
                    Tail(sub_parts), current_separator, S, O)

\* BaseCase with the size test off by one: a text of exactly S tokens is hard
\* split.
BaseCaseOffByOne(current_text, S, O) ==
    LET tokens == get_tokens(current_text)
    IN  IF Len(tokens) >= S THEN HardSplit(tokens, 0, S, O)
        ELSE <<current_text>>

\* The base case of lines 134-145: the text itself when it fits, the hard
\* split when the separators are used up.
BaseCase(current_text, S, O) ==
    LET tokens == get_tokens(current_text)
    IN  IF Len(tokens) > S THEN HardSplit(tokens, 0, S, O)
        ELSE <<current_text>>

RECURSIVE recursive_split(_, _, _, _)
RECURSIVE SplitParts(_, _, _, _)
\* The sub_parts of every part in order (the two nested loops of lines
\* 155-159 visit them in this order, carrying the loop state across parts).
SplitParts(parts, separator_index, S, O) ==
    IF parts = <<>> THEN <<>>
    ELSE recursive_split(parts[1], separator_index + 1, S, O)
         \o SplitParts(Tail(parts), separator_index, S, O)

\* _recursive_split(current_text, separator_index); separator_index counts
\* from 0 as in the source.
recursive_split(current_text, separator_index, S, O) ==
    LET tokens == get_tokens(current_text)
    IN  IF Len(tokens) <= S \/ separator_index >= Len(separators)
        THEN BaseCase(current_text, S, O)
        ELSE LET current_separator == separators[separator_index + 1]
                 parts == split(current_text, current_separator)
                 st == Reassemble([temp_chunks |-> <<>>,
                                   current_chunk_parts |-> <<>>,
                                   current_chunk_token_count |-> 0],
                                  SplitParts(parts, separator_index, S, O),
                                  current_separator, S, O)
             IN  IF st.current_chunk_parts # <<>>
                 THEN Append(st.temp_chunks,
                        SealChunk(current_separator, st.current_chunk_parts))
                 ELSE st.temp_chunks

split_text_into_chunks(text, chunk_size_tokens, chunk_overlap_tokens) ==
    recursive_split(text, 0, chunk_size_tokens, chunk_overlap_tokens)

(***************************************************************************)
(* The retrieval store (embed_and_store.py).                               *)
(*                                                                         *)
(* Passage records as process_filings writes them.                         *)
(***************************************************************************)
ChunkA ==
    [text |-> <<"a", "b">>, company |-> "GOOGL", year |-> "2023",
     source_doc |-> "GOOGL_2023.htm", chunk_id |-> "GOOGL_2023_chunk_0000",
     page |-> 1]
ChunkB ==
    [text |-> <<"a">>, company |-> "GOOGL", year |-> "2023",
     source_doc |-> "GOOGL_2023.htm", chunk_id |-> "GOOGL_2023_chunk_0001",
     page |-> 2]
ChunkC ==
    [text |-> <<"b", "b">>, company |-> "MSFT", year |-> "2023",
     source_doc |-> "MSFT_2023.htm", chunk_id |-> "MSFT_2023_chunk_0000",
     page |-> 1]

\* The passages of all filings, in the order process_filings visits them
\* (line 231 sorts the file names).
AllChunks == <<ChunkA, ChunkB, ChunkC>>

RECURSIVE Ascending(_)
Ascending(T) ==
    IF T = {} THEN <<>>
    ELSE LET m == CHOOSE x \in T : \A y \in T : x <= y
         IN  <<m>> \o Ascending(T \ {m})

\* The lists process_filings can write: the passages of the filings present,
\* in order, up to MaxCorpus of them.
Corpora ==
    {[i \in 1..Cardinality(T) |-> AllChunks[Ascending(T)[i]]] :
        T \in {U \in SUBSET (1..Len(AllChunks)) : Cardinality(U) <= MaxCorpus}}

Queries == {<<>>, <<"b">>}
KValues == (-1)..(MaxCorpus + 1)

\* model.encode: the embedding capability, deterministic for a fixed model.
\* A vector is a point on a line, fixed by the characters of the text.
CharCode(c) == CASE c = "a" -> 1 [] c = "b" -> 2 [] OTHER -> 3

RECURSIVE CodeSum(_)
CodeSum(t) == IF t = <<>> THEN 0 ELSE CharCode(t[1]) + CodeSum(Tail(t))

Embed(t) == CodeSum(t) % 8

Reverse(q) == [i \in 1..Len(q) |-> q[Len(q) + 1 - i]]

\* EmbedAll with the vectors added to the index last passage first.
RECURSIVE EmbedAllReversed(_)
EmbedAllReversed(meta) ==
    IF meta = <<>> THEN <<>>
    ELSE EmbedAllReversed(Tail(meta)) \o <<Embed(meta[1].text)>>

\* Line 64, 66: the texts of the passages, embedded in their order.
RECURSIVE EmbedAll(_)
EmbedAll(meta) ==
    IF meta = <<>> THEN <<>>
    ELSE <<Embed(meta[1].text)>> \o EmbedAll(Tail(meta))

\* IndexFlatL2's metric: the squared Euclidean distance.
Distance(a, b) == (a - b) * (a - b)

\* The distance FAISS reports beside the label -1 that fills a result up to k.
FillerDistance == 1000

NoIndex == [present |-> FALSE, vecs |-> <<>>]

Range(f) == {f[i] : i \in DOMAIN f}

\* index.search(query_embedding, k) of a flat index, line 107: the labels of
\* the min(k, ntotal) nearest vectors in non-decreasing distance (ties in
\* any order), filled up to k with the label -1.  Labels count from 0.
Search(vecs, qv, k) ==
    LET n == Len(vecs)
        m == Min(k, n)
        d(l) == Distance(vecs[l + 1], qv)
        nearest == {I \in [1..m -> 0..(n - 1)] :
                      /\ \A i, j \in 1..m : i < j => I[i] # I[j] /\ d(I[i]) <= d(I[j])
                      /\ \A l \in 0..(n - 1) : l \notin Range(I) =>
                            \A i \in 1..m : d(I[i]) <= d(l)}
    IN  {[labels |-> [i \in 1..k |-> IF i <= m THEN I[i] ELSE -1],
          distances |-> [i \in 1..k |-> IF i <= m THEN d(I[i])
                                        ELSE FillerDistance]] :
            I \in nearest}

\* Line 111 with the lower bound left out: Python then reads the label -1 as
\* the last element.
ValidPositionNoLowerBound(idx, meta) == idx < Len(meta)

\* Line 111: the position check.
ValidPosition(idx, meta) == 0 <= idx /\ idx < Len(meta)

\* chunks_metadata[idx] as Python indexes a list.
PyIndex(list, idx) ==
    IF idx < 0 THEN list[Len(list) + idx + 1] ELSE list[idx + 1]

\* Lines 109-124: the hits whose position is valid, resolved in order.
RECURSIVE ResolveFrom(_, _, _)
ResolveFrom(out, meta, i) ==
    IF i > Len(out.labels) THEN <<>>
    ELSE LET idx == out.labels[i]
             chunk == PyIndex(meta, idx)
         IN  (IF ValidPosition(idx, meta)
              THEN <<[text |-> chunk.text, company |-> chunk.company,
                      year |-> chunk.year, source_doc |-> chunk.source_doc,
                      chunk_id |-> chunk.chunk_id, page |-> chunk.page,
                      distance |-> out.distances[i]]>>
              ELSE <<>>)
             \o ResolveFrom(out, meta, i + 1)

\* The positions the hits of ResolveFrom were resolved from.
RECURSIVE PositionsFrom(_, _, _)
PositionsFrom(out, meta, i) ==
    IF i > Len(out.labels) THEN <<>>
    ELSE (IF ValidPosition(out.labels[i], meta) THEN <<out.labels[i]>>
          ELSE <<>>)
         \o PositionsFrom(out, meta, i + 1)

\* Resolve with each hit put in front of the list instead of appended.
ResolveNewestFirst(out, meta) ==
    [results |-> Reverse(ResolveFrom(out, meta, 1)),
     positions |-> Reverse(PositionsFrom(out, meta, 1))]

\* Lines 109-124: the list retrieve_chunks builds from a search result, and
\* the positions its entries were resolved from.
Resolve(out, meta) ==
    [results |-> ResolveFrom(out, meta, 1),
     positions |-> PositionsFrom(out, meta, 1)]

\* Line 101: the guard of retrieve_chunks.
NotInitialized(m, ix, meta) == ~m \/ ~ix.present \/ meta = <<>>

\* Lines 105-107 raise: the encoding fails, or FAISS rejects k <= 0.
SearchRaises(k, encodeFails) == encodeFails \/ k <= 0

\* retrieve_chunks(query, k) on a pipeline (m, ix, meta): every outcome the
\* call can have, as [results, positions, raised].  Nothing is raised to the
\* caller: lines 125-127 turn an exception into the empty list.
retrieve_chunks(m, ix, meta, query, k, encodeFails) ==
    IF NotInitialized(m, ix, meta) \/ SearchRaises(k, encodeFails)
    THEN {[results |-> <<>>, positions |-> <<>>, raised |-> FALSE]}
    ELSE {[results |-> Resolve(out, meta).results,
           positions |-> Resolve(out, meta).positions,
           raised |-> FALSE] : out \in Search(ix.vecs, Embed(query), k)}

(***************************************************************************)
(* The store's operations.                                                 *)
(***************************************************************************)
Missing == [kind |-> "missing", data |-> <<>>]
Corrupt == [kind |-> "corrupt", data |-> <<>>]

\* No file written and no pipeline used: the store's variables in the
\* specifications of the other parts.
StoreIdle ==
    /\ metaFile = Missing
    /\ indexFile = Missing
    /\ model = FALSE
    /\ index = NoIndex
    /\ chunks_metadata = <<>>
    /\ loaded = [ret |-> FALSE, path |-> "none"]
    /\ last = [op |-> "RAGPipeline"]

\* No chunking under way: the chunker's variables in the specifications of
\* the other parts.
ChunkIdle ==
    /\ doc = <<>>
    /\ size = 1
    /\ overlap = 0
    /\ chunks = <<>>
    /\ chunkPc = "idle"

NoSynthesis == [answer |-> <<>>, reasoning |-> <<>>, sources |-> <<>>]
NoOutput ==
    [query |-> <<>>, answer |-> <<>>, reasoning |-> <<>>,
     sub_queries |-> <<>>, sources |-> <<>>]

\* No answer_query under way: the agent's variables in the specifications
\* of the other parts.
AgentIdle ==
    /\ agentPc = "idle"
    /\ original_query = <<>>
    /\ sub_queries = <<>>
    /\ decomposed = FALSE
    /\ subIdx = 1
    /\ all_retrieved_chunks = <<>>
    /\ final_retrieved_chunks = <<>>
    /\ synthesis = NoSynthesis
    /\ output = NoOutput
    /\ log = <<>>
    /\ llm_errors = {}

\* run_challenge not started: the variables of main.py in the
\* specifications of the other parts.
Unset == [set |-> FALSE, value |-> ""]
MainIdle ==
    /\ mainPc = "idle"
    /\ environ = Unset
    /\ GOOGLE_API_KEY = ""
    /\ all_results = <<>>

\* process_filings not run and no split in progress: the variables of
\* the step-by-step specifications in the specifications of the other parts.
NoLoop == [active |-> FALSE, tokens |-> <<>>, start_token_idx |-> 0]
StepsIdle ==
    /\ data_dir = <<>>
    /\ calls = <<>>
    /\ loop = NoLoop

\* RAGPipeline(): lines 18-33.  The embedding model loads or fails to.
NewPipeline ==
    /\ model' \in BOOLEAN
    /\ index' = NoIndex
    /\ chunks_metadata' = <<>>
    /\ loaded' = [ret |-> FALSE, path |-> "none"]
    /\ last' = [op |-> "RAGPipeline"]
    /\ UNCHANGED <<metaFile, indexFile>>

\* process_filings, lines 271-279: the metadata file is rewritten as a whole
\* with the passages of the current filings; the index file is not touched.
process_filings ==
    /\ \E corpus \in Corpora : metaFile' = [kind |-> "list", data |-> corpus]
    /\ last' = [op |-> "process_filings"]
    /\ UNCHANGED <<indexFile, model, index, chunks_metadata, loaded>>

\* A file left unreadable by a crash in the middle of a write.
CrashMidWrite ==
    /\ \/ metaFile' = Corrupt /\ UNCHANGED indexFile
       \/ indexFile' = Corrupt /\ UNCHANGED metaFile
    /\ last' = [op |-> "crash"]
    /\ UNCHANGED <<model, index, chunks_metadata, loaded>>

\* _load_chunks_metadata, lines 35-48: [ok, meta], meta being
\* self.chunks_metadata afterwards.
load_chunks_metadata(file, meta) ==
    IF file.kind = "missing" THEN [ok |-> FALSE, meta |-> meta]
    ELSE IF file.kind = "corrupt" THEN [ok |-> FALSE, meta |-> meta]
    ELSE [ok |-> TRUE, meta |-> file.data]

\* _create_and_save_embeddings_and_index, lines 50-78: the pipeline and the
\* index file afterwards, with the value returned.  fails names the step
\* of lines 66-72 that raises: "none", "encode" or "write".
create_and_save_embeddings_and_index(m, ix, meta, mfile, ifile, fails) ==
    LET ld == load_chunks_metadata(mfile, meta)
        built == [present |-> TRUE, vecs |-> EmbedAll(ld.meta)]
    IN  IF ~m
        THEN [ret |-> FALSE, index |-> ix, meta |-> meta, ifile |-> ifile]
        ELSE IF ~ld.ok
        THEN [ret |-> FALSE, index |-> ix, meta |-> ld.meta, ifile |-> ifile]
        ELSE IF ld.meta = <<>>
        THEN [ret |-> FALSE, index |-> ix, meta |-> ld.meta, ifile |-> ifile]
        ELSE IF fails = "encode"
        THEN [ret |-> FALSE, index |-> ix, meta |-> ld.meta, ifile |-> ifile]
        ELSE IF fails = "write"
        THEN [ret |-> FALSE, index |-> built, meta |-> ld.meta,
              ifile |-> Corrupt]
        ELSE [ret |-> TRUE, index |-> built, meta |-> ld.meta,
              ifile |-> [kind |-> "index", data |-> built.vecs]]

\* load_or_create_index, lines 80-95.
load_or_create_index ==
    \E fails \in {"none", "encode", "write"} :
        LET rebuilt == create_and_save_embeddings_and_index(
                           model, index, chunks_metadata, metaFile,
                           indexFile, fails)
            ld == load_chunks_metadata(metaFile, chunks_metadata)
            bothExist == indexFile.kind # "missing" /\ metaFile.kind # "missing"
            readRaises == indexFile.kind = "corrupt"
        IN  IF bothExist /\ ~readRaises
            THEN /\ fails = "none"
                 /\ index' = [present |-> TRUE, vecs |-> indexFile.data]
                 /\ chunks_metadata' = ld.meta
                 /\ loaded' = [ret |-> TRUE, path |-> "load"]
                 /\ last' = [op |-> "load_or_create_index", ret |-> TRUE,
                             path |-> "load", meta_file |-> metaFile.kind,
                             index_file |-> indexFile.kind]
                 /\ UNCHANGED <<metaFile, indexFile, model>>
            ELSE /\ index' = rebuilt.index
                 /\ chunks_metadata' = rebuilt.meta
                 /\ indexFile' = rebuilt.ifile
                 /\ loaded' = [ret |-> rebuilt.ret, path |-> "build"]
                 /\ last' = [op |-> "load_or_create_index",
                             ret |-> rebuilt.ret, path |-> "build",
                             meta_file |-> metaFile.kind,
                             index_file |-> indexFile.kind]
                 /\ UNCHANGED <<metaFile, model>>

\* A call of retrieve_chunks(query, k).
RetrieveChunks ==
    \E query \in Queries, k \in KValues, encodeFails \in BOOLEAN :
        \E r \in retrieve_chunks(model, index, chunks_metadata, query, k,
                                 encodeFails) :
            /\ last' = [op |-> "retrieve_chunks", query |-> query, k |-> k,
                        searched |-> ~NotInitialized(model, index,
                                                     chunks_metadata)
                                     /\ ~SearchRaises(k, encodeFails),
                        results |-> r.results, positions |-> r.positions,
                        raised |-> r.raised]
            /\ UNCHANGED <<metaFile, indexFile, model, index,
                           chunks_metadata, loaded>>

StoreInit ==
    /\ metaFile \in {Missing} \cup {[kind |-> "list", data |-> c] : c \in Corpora}
    /\ indexFile = Missing
    /\ model \in BOOLEAN
    /\ index = NoIndex
    /\ chunks_metadata = <<>>
    /\ loaded = [ret |-> FALSE, path |-> "none"]
    /\ last = [op |-> "RAGPipeline"]
    /\ ChunkIdle
    /\ AgentIdle
    /\ MainIdle
    /\ StepsIdle

StoreNext ==
    \/ NewPipeline /\ UNCHANGED <<chunkVars, agentVars, mainVars, filingVars, splitVars>>
    \/ process_filings /\ UNCHANGED <<chunkVars, agentVars, mainVars, filingVars, splitVars>>
    \/ CrashMidWrite /\ UNCHANGED <<chunkVars, agentVars, mainVars, filingVars, splitVars>>
    \/ load_or_create_index /\ UNCHANGED <<chunkVars, agentVars, mainVars, filingVars, splitVars>>
    \/ RetrieveChunks /\ UNCHANGED <<chunkVars, agentVars, mainVars, filingVars, splitVars>>

SpecStore == StoreInit /\ [][StoreNext]_vars

(***************************************************************************)
(* The query orchestrator (query_agent.py).                                *)
(***************************************************************************)
\* str.lower() on the upper-case letters the model's texts use.
LowerChar(c) ==
    CASE c = "C" -> "c" [] c = "L" -> "l" [] c = "M" -> "m"
      [] c = "R" -> "r" [] OTHER -> c
lower(t) == [i \in 1..Len(t) |-> LowerChar(t[i])]

\* kw in t
Contains(t, kw) == \E i \in 1..(Len(t) + 1) : MatchAt(t, kw, i)

\* Line 134: the words that make a question count as complex.
Keywords ==
    { <<"c", "o", "m", "p", "a", "r", "e">>,
      <<"h", "i", "g", "h", "e", "s", "t">>,
      <<"l", "o", "w", "e", "s", "t">>,
      <<"g", "r", "o", "w", "t", "h", " ", "f", "r", "o", "m">>,
      <<"e", "a", "c", "h", " ", "c", "o", "m", "p", "a", "n", "y">>,
      <<"a", "c", "r", "o", "s", "s", " ", "a", "l", "l">> }

IsComplex(q) == \E kw \in Keywords : Contains(lower(q), kw)

\* What self.llm.generate_content can do: return a text, or raise.
\* _call_llm (lines 16-23) strips the text, and turns an exception into the
\* text "LLM error: ...".
LLMError == <<"L", "L", "M", " ", "e", "r", "r", "o", "r", ":", " ", "x">>

\* _call_llm with the exception swallowed into an empty text.
call_llm_silent(response) ==
    IF response.raised THEN <<>> ELSE strip(response.text)

call_llm(response) ==
    IF response.raised THEN LLMError ELSE strip(response.text)

Said(t) == [raised |-> FALSE, text |-> t]
Raised == [raised |-> TRUE, text |-> <<>>]

\* The generation capability's answers to the decomposition prompt.
DecompositionResponses ==
    { Said(<<"a", ",", "b">>),
      Said(<<"-", " ", "b", ",", " ", "-", " ", "a", ",", " ">>),
      Said(<<"a", ",", "a">>),
      Said(<<"b">>),
      Said(<<" ">>),
      Raised }

ReasoningMarker ==
    <<"R", "e", "a", "s", "o", "n", "i", "n", "g", ":">>

\* The generation capability's answers to the synthesis prompt.
SynthesisResponses ==
    { Said(<<"a">>),
      Said(<<"a", " ">> \o ReasoningMarker \o <<" ", "b">>),
      Raised }

\* The parts stripped, the empty ones kept.
StrippedKeepingEmpty(parts) == [i \in 1..Len(parts) |-> strip(parts[i])]

\* select(f, q): the elements of q for which f holds, in order.
RECURSIVE NonEmptyStripped(_)
NonEmptyStripped(parts) ==
    IF parts = <<>> THEN <<>>
    ELSE (IF strip(parts[1]) # <<>> THEN <<strip(parts[1])>> ELSE <<>>)
         \o NonEmptyStripped(Tail(parts))

\* re.sub(r'^- ', '', q).strip(), line 67.
StripBullet(q) ==
    strip(IF MatchAt(q, <<"-", " ">>, 1) THEN SubSeq(q, 3, Len(q)) ELSE q)

\* Lines 63-68: the sub-queries parsed from the response.
decompose_query(response) ==
    LET text == call_llm(response)
        kept == NonEmptyStripped(split(text, <<",">>))
    IN  [i \in 1..Len(kept) |-> StripBullet(kept[i])]

\* The retrieval loop takes the sub-queries last first.
SubQueryFromEnd(subs, i) == subs[Len(subs) + 1 - i]

\* Line 146: the sub-query of the loop's i-th pass.
SubQueryAt(subs, i) == subs[i]

\* Line 157: the fan-out of every retrieval.
FanOutK == 5

\* Line 167: the key a chunk is deduplicated by.
DedupKey(chunk) ==
    IF chunk.chunk_id # "" THEN <<"chunk_id", chunk.chunk_id>>
    ELSE <<"text+source_doc", chunk.text, chunk.source_doc>>

\* The deduplication keeping the last chunk of every key.
RECURSIVE DeduplicateKeepLast(_, _)
DeduplicateKeepLast(list, seen) ==
    IF list = <<>> THEN <<>>
    ELSE IF \E j \in 2..Len(list) : DedupKey(list[j]) = DedupKey(list[1])
         THEN DeduplicateKeepLast(Tail(list), seen)
         ELSE <<list[1]>> \o DeduplicateKeepLast(Tail(list), seen)

\* Lines 164-171: the first chunk of every key, in first-seen order.
RECURSIVE Deduplicate(_, _)
Deduplicate(list, seen) ==
    IF list = <<>> THEN <<>>
    ELSE IF DedupKey(list[1]) \in seen THEN Deduplicate(Tail(list), seen)
    ELSE <<list[1]>> \o Deduplicate(Tail(list), seen \cup {DedupKey(list[1])})

\* Line 87: the length of an excerpt.
ExcerptLen == 200

\* Lines 84-90: the source entry of one chunk.
SourceOf(data) ==
    [company |-> data.company, year |-> data.year,
     excerpt |-> SubSeq(data.text, 1, Min(ExcerptLen, Len(data.text)))
                    \o <<".", ".", ".">>,
     page |-> data.page, source_doc |-> data.source_doc]

\* raw.split("Reasoning:", 1), line 118.
RECURSIVE FirstMatch(_, _, _)
FirstMatch(t, sep, i) ==
    IF i > Len(t) THEN 0
    ELSE IF MatchAt(t, sep, i) THEN i ELSE FirstMatch(t, sep, i + 1)

SplitOnce(t, sep) ==
    LET at == FirstMatch(t, sep, 1)
    IN  IF at = 0 THEN <<t>>
        ELSE <<SubSeq(t, 1, at - 1), SubSeq(t, at + Len(sep), Len(t))>>

\* Lines 92-122: the answer, the reasoning and the sources made of a
\* response.  The reasoning is the preamble, a line break and the rest.
SynthesisOf(response, retrieved_data, subs) ==
    LET answer_parts == SplitOnce(call_llm(response), ReasoningMarker)
        reasoning_str ==
            IF Len(subs) > 1
            THEN "Performed query decomposition, retrieved data for multiple sub-queries, and synthesized the results."
            ELSE "Retrieved relevant information and synthesized the answer."
    IN  [answer |-> strip(answer_parts[1]),
         reasoning |->
            <<reasoning_str, NL,
              IF Len(answer_parts) > 1 THEN strip(answer_parts[2])
              ELSE "No specific reasoning provided by LLM, relying on agent's default reasoning.">>,
         sources |-> [i \in 1..Len(retrieved_data) |->
                        SourceOf(retrieved_data[i])]]

\* Line 76: what _synthesize_answer returns without retrieved data.
NothingFound ==
    [answer |-> "Could not find relevant information to answer the query.",
     reasoning |-> "No relevant data retrieved.",
     sources |-> <<>>]

Event(ev, arg, k) == [ev |-> ev, arg |-> arg, k |-> k]

\* Lines 130-134: sub_queries starts as [query]; the keywords decide whether
\* decomposition is tried.
Classify ==
    /\ agentPc = "classify"
    /\ sub_queries' = <<original_query>>
    /\ agentPc' = IF IsComplex(original_query) THEN "decompose" ELSE "retrieve"
    /\ UNCHANGED <<original_query, decomposed, subIdx, all_retrieved_chunks,
                   final_retrieved_chunks, synthesis, output, log,
                   llm_errors>>

\* Lines 135-141: one generation call; its sub-queries replace sub_queries
\* unless there are none.
Decompose ==
    /\ agentPc = "decompose"
    /\ \E response \in DecompositionResponses :
          LET decomposed_queries == decompose_query(response)
          IN  /\ sub_queries' = IF decomposed_queries # <<>>
                                THEN decomposed_queries ELSE sub_queries
              /\ decomposed' = (decomposed_queries # <<>>)
              /\ llm_errors' = IF response.raised
                                THEN llm_errors \cup {"decompose"}
                                ELSE llm_errors
    /\ log' = Append(log, Event("generate", "decompose", 0))
    /\ agentPc' = "retrieve"
    /\ UNCHANGED <<original_query, subIdx, all_retrieved_chunks,
                   final_retrieved_chunks, synthesis, output>>

\* Lines 146-160: one pass of the loop, one retrieve_chunks call.
Retrieve ==
    /\ agentPc = "retrieve"
    /\ subIdx <= Len(sub_queries)
    /\ LET sub_q == SubQueryAt(sub_queries, subIdx)
       IN  /\ \E encodeFails \in BOOLEAN :
                \E r \in retrieve_chunks(model, index, chunks_metadata, sub_q,
                                         FanOutK, encodeFails) :
                    all_retrieved_chunks' = all_retrieved_chunks \o r.results
           /\ log' = Append(log, Event("retrieve", sub_q, FanOutK))
    /\ subIdx' = subIdx + 1
    /\ UNCHANGED <<agentPc, original_query, sub_queries, decomposed,
                   final_retrieved_chunks, synthesis, output, llm_errors>>

\* Lines 164-171, after the loop has ended.
Dedup ==
    /\ agentPc = "retrieve"
    /\ subIdx > Len(sub_queries)
    /\ final_retrieved_chunks' = Deduplicate(all_retrieved_chunks, {})
    /\ log' = Append(log, Event("deduplicate", "", 0))
    /\ agentPc' = "synthesize"
    /\ UNCHANGED <<original_query, sub_queries, decomposed, subIdx,
                   all_retrieved_chunks, synthesis, output, llm_errors>>

\* _synthesize_answer, lines 70-122: no generation call without data.
Synthesize ==
    /\ agentPc = "synthesize"
    /\ \/ /\ final_retrieved_chunks = <<>>
          /\ synthesis' = NothingFound
          /\ log' = log
          /\ llm_errors' = llm_errors
       \/ /\ final_retrieved_chunks # <<>>
          /\ \E response \in SynthesisResponses :
                /\ synthesis' = SynthesisOf(response, final_retrieved_chunks,
                                            sub_queries)
                /\ llm_errors' = IF response.raised
                                  THEN llm_errors \cup {"synthesize"}
                                  ELSE llm_errors
          /\ log' = Append(log, Event("generate", "synthesize", 0))
    /\ agentPc' = "package"
    /\ UNCHANGED <<original_query, sub_queries, decomposed, subIdx,
                   all_retrieved_chunks, final_retrieved_chunks, output>>

\* Lines 177-185: the result.
Package ==
    /\ agentPc = "package"
    /\ output' = [query |-> original_query, answer |-> synthesis.answer,
                  reasoning |-> synthesis.reasoning,
                  sub_queries |-> sub_queries, sources |-> synthesis.sources]
    /\ log' = Append(log, Event("package", "", 0))
    /\ agentPc' = "done"
    /\ UNCHANGED <<original_query, sub_queries, decomposed, subIdx,
                   all_retrieved_chunks, final_retrieved_chunks, synthesis,
                   llm_errors>>

\* The questions put to answer_query.
AgentQueries ==
    { <<>>,
      <<"b">>,
      <<"b", " ">>,
      <<"C", "o", "m", "p", "a", "r", "e", " ", "a">> }

\* Two records of a metadata file written without chunk_id: the same text of
\* the same document, on different pages.
ChunkNoIdFirst == [ChunkA EXCEPT !.chunk_id = ""]
ChunkNoIdSecond == [ChunkA EXCEPT !.chunk_id = "", !.page = 2]

\* The metadata lists the agent's pipeline can hold.
AgentCorpora == Corpora \cup {<<ChunkNoIdFirst, ChunkNoIdSecond>>}

\* The pipeline the agent is given: an index loaded or built from one list
\* of passages and the metadata of a list, the embedding model loaded or not.
AgentInit ==
    /\ agentPc = "classify"
    /\ original_query \in AgentQueries
    /\ sub_queries = <<>>
    /\ decomposed = FALSE
    /\ subIdx = 1
    /\ all_retrieved_chunks = <<>>
    /\ final_retrieved_chunks = <<>>
    /\ synthesis = NoSynthesis
    /\ output = NoOutput
    /\ log = <<>>
    /\ llm_errors = {}
    /\ \E built \in Corpora \ {<<>>}, current \in AgentCorpora :
          /\ metaFile = [kind |-> "list", data |-> current]
          /\ indexFile = [kind |-> "index", data |-> EmbedAll(built)]
          /\ index = [present |-> TRUE, vecs |-> EmbedAll(built)]
          /\ chunks_metadata = current
    /\ model \in BOOLEAN
    /\ loaded = [ret |-> TRUE, path |-> "load"]
    /\ last = [op |-> "load_or_create_index", ret |-> TRUE, path |-> "load",
               meta_file |-> "list", index_file |-> "index"]
    /\ ChunkIdle
    /\ MainIdle
    /\ StepsIdle

AgentNext ==
    \/ Classify /\ UNCHANGED <<chunkVars, storeVars, mainVars, filingVars, splitVars>>
    \/ Decompose /\ UNCHANGED <<chunkVars, storeVars, mainVars, filingVars, splitVars>>
    \/ Retrieve /\ UNCHANGED <<chunkVars, storeVars, mainVars, filingVars, splitVars>>
    \/ Dedup /\ UNCHANGED <<chunkVars, storeVars, mainVars, filingVars, splitVars>>
    \/ Synthesize /\ UNCHANGED <<chunkVars, storeVars, mainVars, filingVars, splitVars>>
    \/ Package /\ UNCHANGED <<chunkVars, storeVars, mainVars, filingVars, splitVars>>

SpecAgent == AgentInit /\ [][AgentNext]_vars

(***************************************************************************)
(* The entry point (main.py).                                              *)
(***************************************************************************)
\* Line 25: the default os.environ.get falls back to.
Placeholder == "YOUR_GEMINI_API_KEY_HERE"

\* Lines 54-65: the test queries.
test_queries == <<"q1", "q2", "q3", "q4", "q5", "q6", "q7">>

\* Line 25, run when main.py is loaded.
ReadEnvironment ==
    /\ mainPc = "import"
    /\ GOOGLE_API_KEY' = IF environ.set THEN environ.value ELSE Placeholder
    /\ mainPc' = "pipeline"
    /\ UNCHANGED <<environ, all_results>>
    /\ UNCHANGED <<chunkVars, storeVars, agentVars, filingVars, splitVars>>

\* Line 40: rag_pipeline = RAGPipeline().
MainNewPipeline ==
    /\ mainPc = "pipeline"
    /\ NewPipeline
    /\ mainPc' = "load"
    /\ UNCHANGED <<environ, GOOGLE_API_KEY, all_results>>
    /\ UNCHANGED <<chunkVars, agentVars, filingVars, splitVars>>

\* Lines 41-43: run_challenge returns when load_or_create_index fails.
MainLoad ==
    /\ mainPc = "load"
    /\ load_or_create_index
    /\ mainPc' = IF loaded'.ret THEN "agent" ELSE "exit"
    /\ UNCHANGED <<environ, GOOGLE_API_KEY, all_results>>
    /\ UNCHANGED <<chunkVars, agentVars, filingVars, splitVars>>

\* Lines 47-52 with FinancialAgent.__init__ (query_agent.py lines 8-14):
\* ValueError when the key is falsy, and run_challenge returns.
MainAgent ==
    /\ mainPc = "agent"
    /\ mainPc' = IF GOOGLE_API_KEY = "" THEN "exit" ELSE "queries"
    /\ UNCHANGED <<environ, GOOGLE_API_KEY, all_results>>
    /\ UNCHANGED <<chunkVars, storeVars, agentVars, filingVars, splitVars>>

\* Lines 68-73: one pass of the loop, one answer_query call.
MainAnswer ==
    /\ mainPc = "queries"
    /\ Len(all_results) < Len(test_queries)
    /\ all_results' = Append(all_results, test_queries[Len(all_results) + 1])
    /\ UNCHANGED <<mainPc, environ, GOOGLE_API_KEY>>
    /\ UNCHANGED <<chunkVars, storeVars, agentVars, filingVars, splitVars>>

\* Lines 76-84: the results are saved.
MainSave ==
    /\ mainPc = "queries"
    /\ Len(all_results) = Len(test_queries)
    /\ mainPc' = "saved"
    /\ UNCHANGED <<environ, GOOGLE_API_KEY, all_results>>
    /\ UNCHANGED <<chunkVars, storeVars, agentVars, filingVars, splitVars>>

\* The environment and the files run_challenge starts with.
MainInit ==
    /\ mainPc = "import"
    /\ environ \in {Unset, [set |-> TRUE, value |-> ""],
                    [set |-> TRUE, value |-> "key"]}
    /\ GOOGLE_API_KEY = ""
    /\ all_results = <<>>
    /\ metaFile \in {Missing, Corrupt}
                       \cup {[kind |-> "list", data |-> c] : c \in Corpora}
    /\ indexFile \in {Missing, Corrupt}
                        \cup {[kind |-> "index", data |-> EmbedAll(c)] :
                                 c \in Corpora \ {<<>>}}
    /\ model = FALSE
    /\ index = NoIndex
    /\ chunks_metadata = <<>>
    /\ loaded = [ret |-> FALSE, path |-> "none"]
    /\ last = [op |-> "none"]
    /\ ChunkIdle
    /\ AgentIdle
    /\ StepsIdle

MainNext ==
    \/ ReadEnvironment
    \/ MainNewPipeline
    \/ MainLoad
    \/ MainAgent
    \/ MainAnswer
    \/ MainSave

SpecMain == MainInit /\ [][MainNext]_vars

(***************************************************************************)
(* One run of process_filings (parse_and_chunk.py), from the files in      *)
(* DATA_DIR to the records of the metadata file.  File names and the       *)
(* strings made of them are sequences of characters.                       *)
(***************************************************************************)
\* The .htm files DATA_DIR can hold, in the order html_files.sort() (line
\* 231) puts them.
FileNames ==
    << <<"G", "O", "O", "G", "L", "_", "2", "0", "2", "3", ".", "h", "t", "m">>,
       <<"G", "O", "O", "G", "L", "_", "2", "0", "2", "3", "_", "a", "m", "e", "n", "d", "e", "d", ".", "h", "t", "m">>,
       <<"M", "S", "F", "T", "_", "2", "0", "2", "3", ".", "h", "t", "m">>,
       <<"N", "V", "D", "A", ".", "h", "t", "m">> >>

\* What extract_text_from_html can return for a file; the empty text makes
\* line 240 skip the file.
ExtractedTexts == {<<>>, <<"a">>, <<"a", "a", "a">>}

\* Lines 13-14 (500 and 50 in the source), scaled to the texts above.
CHUNK_SIZE_TOKENS == 2
CHUNK_OVERLAP_TOKENS == 1

\* t.replace(old, new)
replace(t, old, new) == join(new, split(t, old))

Digits == <<"0", "1", "2", "3", "4", "5", "6", "7", "8", "9">>

\* f"{i:04d}" for 0 <= i < 10000
Format04d(i) ==
    << Digits[((i \div 1000) % 10) + 1], Digits[((i \div 100) % 10) + 1],
       Digits[((i \div 10) % 10) + 1], Digits[(i % 10) + 1] >>

\* Lines 252-268: the records of one file.
RecordsOf(file_name, extracted_text) ==
    LET file_chunks == split_text_into_chunks(extracted_text, CHUNK_SIZE_TOKENS,
                                              CHUNK_OVERLAP_TOKENS)
        parts == split(replace(file_name, <<".", "h", "t", "m">>, <<>>), <<"_">>)
        company_code == IF Len(parts) > 0 THEN parts[1] ELSE <<"U", "N", "K", "N", "O", "W", "N">>
        year == IF Len(parts) > 1 THEN parts[2] ELSE <<"U", "N", "K", "N", "O", "W", "N">>
    IN  [n \in 1..Len(file_chunks) |->
            [text |-> file_chunks[n],
             company |-> company_code,
             year |-> year,
             source_doc |-> file_name,
             chunk_id |-> company_code \o <<"_">> \o year
                             \o <<"_", "c", "h", "u", "n", "k", "_">> \o Format04d(n - 1),
             page |-> n]]

\* Lines 233-268: the records of the files html_files, in order.
RECURSIVE all_processed_chunks_metadata(_, _)
all_processed_chunks_metadata(html_files, dir) ==
    IF html_files = <<>> THEN <<>>
    ELSE LET f == html_files[1]
         IN  (IF dir[f] = <<>> THEN <<>> ELSE RecordsOf(FileNames[f], dir[f]))
             \o all_processed_chunks_metadata(Tail(html_files), dir)

\* process_filings, lines 200-279: returns early without .htm files (line
\* 222-226); otherwise writes the records of all files to the metadata file.
RunProcessFilings ==
    /\ IF DOMAIN data_dir = {}
       THEN UNCHANGED metaFile
       ELSE metaFile' =
               [kind |-> "list",
                data |-> all_processed_chunks_metadata(
                             Ascending(DOMAIN data_dir), data_dir)]
    /\ last' = [op |-> "process_filings"]
    /\ UNCHANGED <<indexFile, model, index, chunks_metadata, loaded>>
    /\ UNCHANGED <<data_dir, chunkVars, agentVars, mainVars, splitVars>>

FilingsInit ==
    /\ data_dir \in UNION {[T -> ExtractedTexts] :
                              T \in SUBSET (1..Len(FileNames))}
    /\ calls = <<>>
    /\ loop = NoLoop
    /\ StoreIdle
    /\ ChunkIdle
    /\ AgentIdle
    /\ MainIdle

FilingsNext == RunProcessFilings

SpecFilings == FilingsInit /\ [][FilingsNext]_vars

(***************************************************************************)
(* The chunker's specification: any text up to MaxDocLen characters, any   *)
(* size up to MaxChunkSize and any overlap with 0 <= overlap < size.       *)
(***************************************************************************)
Texts == UNION {[1..n -> Alphabet] : n \in 0..MaxDocLen}

ChunkInit ==
    /\ doc \in Texts
    /\ size \in 1..MaxChunkSize
    /\ overlap \in 0..(size - 1)
    /\ chunks = <<>>
    /\ chunkPc = "call"
    /\ StoreIdle
    /\ AgentIdle
    /\ MainIdle
    /\ StepsIdle

ChunkCall ==
    /\ chunkPc = "call"
    /\ chunks' = split_text_into_chunks(doc, size, overlap)
    /\ chunkPc' = "done"
    /\ UNCHANGED <<doc, size, overlap>>
    /\ UNCHANGED <<storeVars, agentVars, mainVars, filingVars, splitVars>>

ChunkNext == ChunkCall

SpecChunk == ChunkInit /\ [][ChunkNext]_vars

(***************************************************************************)
(* split_text_into_chunks step by step: the _recursive_split calls it      *)
(* makes and the passes of the hard split loop.  The calls still to be     *)
(* made are kept in order, the next one first; a call on a text that must  *)
(* be split puts one call per part before them (lines 155-157).            *)
(***************************************************************************)
Frame(current_text, separator_index) ==
    [current_text |-> current_text, separator_index |-> separator_index]

\* The loop of lines 139-142 stands still.
StartStays(start_token_idx, S, O) == start_token_idx

\* Line 142: start_token_idx += (chunk_size_tokens - chunk_overlap_tokens)
Advance(start_token_idx, S, O) == start_token_idx + (S - O)

\* Lines 130-157: the next call is entered.  It returns at once (line 145),
\* enters the hard split loop (lines 137-139), or calls itself on every
\* part with the next separator.
EnterCall ==
    /\ chunkPc = "call"
    /\ ~loop.active
    /\ calls # <<>>
    /\ LET current_text == Head(calls).current_text
           separator_index == Head(calls).separator_index
           tokens == get_tokens(current_text)
       IN  IF Len(tokens) <= size \/ separator_index >= Len(separators)
           THEN /\ calls' = Tail(calls)
                /\ loop' = IF Len(tokens) > size
                           THEN [active |-> TRUE, tokens |-> tokens,
                                 start_token_idx |-> 0]
                           ELSE loop
           ELSE LET parts == split(current_text,
                                   separators[separator_index + 1])
                IN  /\ calls' = [i \in 1..Len(parts) |->
                                    Frame(parts[i], separator_index + 1)]
                                \o Tail(calls)
                    /\ loop' = loop
    /\ UNCHANGED <<doc, size, overlap, chunks, chunkPc>>
    /\ UNCHANGED <<storeVars, agentVars, mainVars, filingVars>>

\* Lines 139-142: one pass of the hard split loop.  A start index that
\* moves backwards is followed down to -MaxUnderrun.
HardSplitPass ==
    /\ loop.active
    /\ loop.start_token_idx < Len(loop.tokens)
    /\ loop.start_token_idx > -MaxUnderrun
    /\ loop' = [loop EXCEPT !.start_token_idx = Advance(@, size, overlap)]
    /\ UNCHANGED <<calls, chunkVars>>
    /\ UNCHANGED <<storeVars, agentVars, mainVars, filingVars>>

\* Line 143: the loop ends when the start index has passed the last token.
HardSplitReturn ==
    /\ loop.active
    /\ loop.start_token_idx >= Len(loop.tokens)
    /\ loop' = [loop EXCEPT !.active = FALSE]
    /\ UNCHANGED <<calls, chunkVars>>
    /\ UNCHANGED <<storeVars, agentVars, mainVars, filingVars>>

\* Line 195: the outermost call has returned.  The chunks it returns are
\* those of ChunkCall; these steps follow the control flow only.
SplitReturn ==
    /\ chunkPc = "call"
    /\ ~loop.active
    /\ calls = <<>>
    /\ chunkPc' = "done"
    /\ UNCHANGED <<doc, size, overlap, chunks, calls, loop>>
    /\ UNCHANGED <<storeVars, agentVars, mainVars, filingVars>>

SplitTexts == UNION {[1..n -> Alphabet] : n \in 0..MaxSplitLen}

\* Every text, and every size and overlap, the overlaps of at least the
\* size included.
SplitInit ==
    /\ doc \in SplitTexts
    /\ size \in 1..MaxChunkSize
    /\ overlap \in 0..MaxChunkSize
    /\ chunks = <<>>
    /\ chunkPc = "call"
    /\ calls = <<Frame(doc, 0)>>
    /\ loop = NoLoop
    /\ data_dir = <<>>
    /\ StoreIdle
    /\ AgentIdle
    /\ MainIdle

SplitNext ==
    \/ EnterCall
    \/ HardSplitPass
    \/ HardSplitReturn
    \/ SplitReturn

\* The call runs on as long as it has a step to take.
SpecSplit == SplitInit /\ [][SplitNext]_vars /\ WF_vars(SplitNext)

(***************************************************************************)
(* Claims about the chunker, checked under SpecChunk.                      *)
(***************************************************************************)
IsPrefix(p, t) == Len(p) <= Len(t) /\ SubSeq(t, 1, Len(p)) = p

\* C1: every chunk split_text_into_chunks returns has at most
\* chunk_size_tokens tokens, chunks seeded with overlap and chunks
\* reassembled at an outer separator level included.
C1_ChunkBound ==
    chunkPc = "done" =>
        \A i \in 1..Len(chunks) : TokenCount(chunks[i]) <= size

\* C2: with overlap > 0, for every two adjacent chunks the text decoded
\* from the last overlap tokens of the first (all of it when it has fewer)
\* is a prefix of the second.
C2_OverlapContinuity ==
    chunkPc = "done" /\ overlap > 0 =>
        \A i \in 1..(Len(chunks) - 1) :
            IsPrefix(OverlapText(chunks[i], overlap), chunks[i + 1])

\* C3: an empty document yields an empty sequence of chunks.
C3_EmptyDocument ==
    chunkPc = "done" /\ doc = <<>> => Len(chunks) = 0

\* C4: a non-empty document of at most chunk_size_tokens tokens yields
\* exactly one chunk, equal to the input text (nothing added, nothing
\* stripped).
C4_SmallDocument ==
    chunkPc = "done" /\ doc # <<>> /\ TokenCount(doc) <= size =>
        chunks = <<doc>>

\* C4's case: a document of exactly chunk_size_tokens tokens, with leading
\* whitespace and a positive overlap, came back as the one chunk.
C4_Witness ==
    /\ chunkPc = "done"
    /\ doc # <<>>
    /\ doc[1] \in Whitespace
    /\ TokenCount(doc) = size
    /\ overlap > 0
    /\ chunks = <<doc>>

(***************************************************************************)
(* Claims about the retrieval store, checked under SpecStore.              *)
(***************************************************************************)
\* Position i of the index holds the vector of chunks_metadata[i].text, for
\* every i, and the two have the same length.
IndexMatchesMetadata ==
    /\ index.present
    /\ Len(index.vecs) = Len(chunks_metadata)
    /\ \A i \in 1..Len(index.vecs) :
          index.vecs[i] = Embed(chunks_metadata[i].text)

\* C5: after _create_and_save_embeddings_and_index returned True the index
\* has len(chunks_metadata) vectors, vector i embedded from
\* chunks_metadata[i].text; and every result of retrieve_chunks was resolved
\* from a position in 0..len(chunks_metadata)-1 (the -1 filler and other
\* positions are skipped, nothing is raised).
C5_IndexMetadataParity ==
    /\ loaded.ret /\ loaded.path = "build" => IndexMatchesMetadata
    /\ last.op = "retrieve_chunks" =>
          /\ ~last.raised
          /\ Len(last.positions) = Len(last.results)
          /\ \A i \in 1..Len(last.results) :
                LET idx == last.positions[i]
                IN  /\ 0 <= idx /\ idx < Len(chunks_metadata)
                    /\ last.results[i].chunk_id
                          = chunks_metadata[idx + 1].chunk_id
                    /\ last.results[i].text = chunks_metadata[idx + 1].text

\* C5's case: on a pipeline built from two passages, a search for more hits
\* than the index holds returned both and skipped the filler.
C5_Witness ==
    /\ loaded.ret /\ loaded.path = "build"
    /\ Len(chunks_metadata) = 2
    /\ last.op = "retrieve_chunks"
    /\ last.k > Len(index.vecs)
    /\ Len(last.results) = 2

\* C6: whenever load_or_create_index has returned True, by loading or by
\* rebuilding, the index and chunks_metadata have the same length and order.
C6_LoadedParity ==
    loaded.ret => IndexMatchesMetadata

\* C7: load_or_create_index rebuilds whenever the index file or the metadata
\* file is missing or cannot be read, and never returns True leaving an
\* index without usable metadata.
C7_FallbackToRebuild ==
    last.op = "load_or_create_index" =>
        /\ (\/ last.meta_file \in {"missing", "corrupt"}
            \/ last.index_file \in {"missing", "corrupt"}) =>
                last.path = "build"
        /\ last.ret => ~(index.present /\ chunks_metadata = <<>>)

SortedByDistance(results) ==
    \A i, j \in 1..Len(results) :
        i < j => results[i].distance <= results[j].distance

\* The positions present in both the index and chunks_metadata.
AvailablePositions ==
    0..(Min(Len(index.vecs), Len(chunks_metadata)) - 1)

C9_InputErrorsReturnEmpty ==
    last.op = "retrieve_chunks" =>
        /\ ~last.raised
        /\ (last.query = <<>> \/ last.k <= 0 \/ ~loaded.ret) =>
              last.results = <<>>

(***************************************************************************)
(* Claims about the orchestrator, checked under SpecAgent.                 *)
(***************************************************************************)
\* The stage an entry of the log belongs to.
StageRank(e) ==
    CASE e.ev = "generate" /\ e.arg = "decompose" -> 1
      [] e.ev = "retrieve" -> 2
      [] e.ev = "deduplicate" -> 3
      [] e.ev = "generate" /\ e.arg = "synthesize" -> 4
      [] OTHER -> 5

IsRetrieval(e) == e.ev = "retrieve"
Retrievals == SelectSeq(log, IsRetrieval)
Logged(rank) == \E i \in 1..Len(log) : StageRank(log[i]) = rank

\* C10: within one answer_query call the stages run in order without going
\* back: the decomposition call (if any) before the first retrieve_chunks
\* call; one retrieve_chunks call per sub-query, in the order of
\* sub_queries, each with k = 5; all of them before deduplication; the
\* synthesis call (if any) after deduplication and before the result is
\* packaged.
C10_StagesInOrder ==
    /\ \A i, j \in 1..Len(log) :
          i < j => /\ StageRank(log[i]) <= StageRank(log[j])
                   /\ StageRank(log[i]) = StageRank(log[j]) =>
                         IsRetrieval(log[i])
    /\ Len(Retrievals) <= Len(sub_queries)
    /\ \A i \in 1..Len(Retrievals) :
          Retrievals[i] = Event("retrieve", sub_queries[i], 5)
    /\ Logged(3) => Len(Retrievals) = Len(sub_queries)
    /\ Logged(4) => Logged(3)
    /\ Logged(5) => Logged(3)
    /\ agentPc = "done" <=> Logged(5)

\* C10's case: a finished call that decomposed the question into two
\* different sub-queries, retrieved for both and called the synthesis.
C10_Witness ==
    /\ agentPc = "done"
    /\ Len(sub_queries) = 2
    /\ sub_queries[1] # sub_queries[2]
    /\ Logged(1)
    /\ Logged(4)
    /\ Len(log) = 6

AfterDecomposition == agentPc \in {"retrieve", "synthesize", "package", "done"}
Trimmed(t) == t # <<>> /\ strip(t) = t

\* C11: sub_queries is never empty at the Retrieve stage or in the returned
\* result and every element is a trimmed non-empty string; when the
\* decomposition of a question with a trigger word yields nothing,
\* sub_queries is [original question] and retrieval uses it unmodified.
C11_SubQueriesTrimmed ==
    AfterDecomposition =>
        /\ sub_queries # <<>>
        /\ \A i \in 1..Len(sub_queries) : Trimmed(sub_queries[i])
        /\ (Logged(1) /\ ~decomposed) => sub_queries = <<original_query>>
        /\ agentPc = "done" => output.sub_queries = sub_queries

\* C11 as the code has it: only the sub-queries parsed from a decomposition
\* are trimmed and non-empty; without one, sub_queries is the question as
\* it was given, and every retrieval is made with it.
C11_SubQueriesNeverEmpty ==
    AfterDecomposition =>
        /\ sub_queries # <<>>
        /\ decomposed => \A i \in 1..Len(sub_queries) : Trimmed(sub_queries[i])
        /\ ~decomposed =>
              /\ sub_queries = <<original_query>>
              /\ \A i \in 1..Len(Retrievals) :
                    Retrievals[i].arg = original_query
        /\ agentPc = "done" => output.sub_queries = sub_queries

\* C11's case: a decomposition that yielded nothing, the call finished
\* with one retrieval made with the question itself.
C11_Witness ==
    /\ agentPc = "done"
    /\ Logged(1)
    /\ ~decomposed
    /\ Retrievals = <<Event("retrieve", original_query, 5)>>
    /\ output.sub_queries = <<original_query>>

Deduplicated == agentPc \in {"synthesize", "package", "done"}
KeysOf(list) == {DedupKey(list[i]) : i \in 1..Len(list)}
FirstSeen(key) ==
    CHOOSE j \in 1..Len(all_retrieved_chunks) :
        /\ DedupKey(all_retrieved_chunks[j]) = key
        /\ \A h \in 1..(j - 1) : DedupKey(all_retrieved_chunks[h]) # key

\* C12: the list passed to synthesis has exactly one entry per distinct
\* dedup key among all accumulated results, the first chunk seen with the
\* key, in first-seen order; a passage retrieved twice is there once.
C12_OneEntryPerKey ==
    Deduplicated =>
        /\ KeysOf(final_retrieved_chunks) = KeysOf(all_retrieved_chunks)
        /\ Len(final_retrieved_chunks) =
              Cardinality(KeysOf(all_retrieved_chunks))
        /\ \A i \in 1..Len(final_retrieved_chunks) :
              final_retrieved_chunks[i] =
                 all_retrieved_chunks[FirstSeen(DedupKey(final_retrieved_chunks[i]))]
        /\ \A i, j \in 1..Len(final_retrieved_chunks) :
              i < j => FirstSeen(DedupKey(final_retrieved_chunks[i]))
                          < FirstSeen(DedupKey(final_retrieved_chunks[j]))

\* C12's case: two sub-queries that returned the same two passages in
\* different orders.
C12_Witness ==
    /\ Deduplicated
    /\ Len(sub_queries) = 2
    /\ Len(all_retrieved_chunks) = 4
    /\ Len(final_retrieved_chunks) = 2
    /\ DedupKey(all_retrieved_chunks[3]) = DedupKey(all_retrieved_chunks[2])
    /\ DedupKey(all_retrieved_chunks[4]) = DedupKey(all_retrieved_chunks[1])
    /\ final_retrieved_chunks =
          <<all_retrieved_chunks[1], all_retrieved_chunks[2]>>

IsGeneration(e) == e.ev = "generate"

\* C13: when retrieve_chunks returned nothing for every sub-query of the
\* call, the answer is the fixed "could not find" text, sources is empty
\* and the generation capability was called zero times during the call.
C13_NoResultsNoGeneration ==
    (agentPc = "done" /\ all_retrieved_chunks = <<>>) =>
        /\ output.answer = NothingFound.answer
        /\ output.sources = <<>>
        /\ SelectSeq(log, IsGeneration) = <<>>

ResultShape == {"query", "answer", "reasoning", "sub_queries", "sources"}

\* C14: a generation call that fails never aborts answer_query.  The call
\* goes on to its end and returns the full result shape; the text
\* "LLM error: ..." stands in for what the failed call would have produced
\* (the sub-query list, the answer) and the later stages run on it.
C14_GenerationFailureDegrades ==
    /\ (llm_errors # {} /\ agentPc # "done") => ENABLED AgentNext
    /\ "decompose" \in llm_errors =>
          /\ sub_queries = <<LLMError>>
          /\ \A i \in 1..Len(Retrievals) :
                Retrievals[i] = Event("retrieve", LLMError, FanOutK)
          /\ Logged(3) => Len(Retrievals) = 1
    /\ "synthesize" \in llm_errors => synthesis.answer = LLMError
    /\ agentPc = "done" =>
          /\ DOMAIN output = ResultShape
          /\ output.query = original_query
          /\ "decompose" \in llm_errors => output.sub_queries = <<LLMError>>
          /\ "synthesize" \in llm_errors =>
                /\ output.answer = LLMError
                /\ Len(output.sources) = Len(final_retrieved_chunks)

\* C14's case: a finished call whose two generation calls both failed.
C14_Witness ==
    /\ agentPc = "done"
    /\ llm_errors = {"decompose", "synthesize"}
    /\ output.sub_queries = <<LLMError>>
    /\ output.answer = LLMError
    /\ output.sources # <<>>

(***************************************************************************)
(* Claims about the entry point, checked under SpecMain.                   *)
(***************************************************************************)
\* C15: with GOOGLE_API_KEY not set in the environment run_challenge stops
\* before any answer_query call; and no answer_query call is made unless
\* load_or_create_index returned True.
C15_MissingKeyStops ==
    /\ ~environ.set => all_results = <<>>
    /\ all_results # <<>> => loaded.ret

(***************************************************************************)
(* Further claims about the orchestrator, checked under SpecAgent.         *)
(***************************************************************************)
Ellipsis == <<".", ".", ".">>

\* C16: sources has one entry per deduplicated passage, in the same order;
\* each excerpt is a prefix of the passage text of at most 200 characters
\* followed by "...", and never contains the full passage text, whatever
\* the length of the passage.
C16_ExcerptNeverWholePassage ==
    agentPc = "done" =>
        /\ Len(output.sources) = Len(final_retrieved_chunks)
        /\ \A i \in 1..Len(output.sources) :
              LET excerpt == output.sources[i].excerpt
                  text == final_retrieved_chunks[i].text
                  n == Len(excerpt) - Len(Ellipsis)
              IN  /\ output.sources[i].source_doc =
                        final_retrieved_chunks[i].source_doc
                  /\ 0 <= n /\ n <= 200
                  /\ excerpt = SubSeq(text, 1, n) \o Ellipsis
                  /\ ~Contains(excerpt, text)

DecompositionPreamble ==
    "Performed query decomposition, retrieved data for multiple sub-queries, and synthesized the results."
PlainPreamble ==
    "Retrieved relevant information and synthesized the answer."
DefaultReasoning ==
    "No specific reasoning provided by LLM, relying on agent's default reasoning."

\* C17: when synthesis runs, the reasoning begins with the preamble that
\* says decomposition was performed if and only if the Decompose stage
\* replaced the sub-query list in this call, also when it produced one
\* sub-query; then comes the text after the first "Reasoning:" marker of
\* the response, or the default placeholder; the answer is the text before
\* the marker.
C17_PreambleTellsDecomposition ==
    (agentPc = "done" /\ Logged(4)) =>
        /\ output.reasoning[1] =
              IF decomposed THEN DecompositionPreamble ELSE PlainPreamble
        /\ \E response \in SynthesisResponses :
              LET parts == SplitOnce(call_llm(response), ReasoningMarker)
              IN  /\ output.answer = strip(parts[1])
                  /\ output.reasoning[3] =
                        IF Len(parts) > 1 THEN strip(parts[2])
                        ELSE DefaultReasoning

(***************************************************************************)
(* Claims about process_filings, checked under SpecFilings.                *)
(***************************************************************************)
RecordsOfDoc(data, name) ==
    SelectSeq(data, LAMBDA rec : rec.source_doc = name)

\* C18: the chunk_id of every record written by one process_filings run is
\* unique among the records of the run, whatever the (distinct) names of
\* the input files; and the pages of one document are 1, 2, ..., n in chunk
\* order.
C18_ChunkIdsUnique ==
    (last.op = "process_filings" /\ metaFile.kind = "list") =>
        /\ \A i, j \in 1..Len(metaFile.data) :
              i # j => metaFile.data[i].chunk_id # metaFile.data[j].chunk_id
        /\ \A f \in 1..Len(FileNames) :
              LET recs == RecordsOfDoc(metaFile.data, FileNames[f])
              IN  \A n \in 1..Len(recs) : recs[n].page = n

(***************************************************************************)
(* Claims about the termination of the chunker, checked under SpecSplit.   *)
(***************************************************************************)
\* C19: split_text_into_chunks terminates for every text and every S, O
\* with 0 <= O < S.  The separator index of a call never exceeds the
\* number of separators, every call of a call has the next index, and the
\* hard split loop moves its start index forward by S - O > 0 on every
\* pass until it is past the last token.  With O >= S the loop, once
\* entered, never ends.
C19_SplitTerminates ==
    /\ [](\A i \in 1..Len(calls) :
             calls[i].separator_index <= Len(separators))
    /\ [][/\ Len(calls') > Len(calls) =>
                \A i \in 1..(Len(calls') - Len(calls) + 1) :
                   calls'[i].separator_index =
                      Head(calls).separator_index + 1
          /\ (loop.active /\ loop'.active /\ overlap < size) =>
                loop'.start_token_idx > loop.start_token_idx]_vars
    /\ (overlap < size) => <>(chunkPc = "done")
    /\ []((loop.active /\ overlap >= size) => [](loop.active))

\* C19's case: a finished call on a text with a space in it, whose hard
\* split loop ran on a part reached through all three separators and made
\* two passes or more.
C19_Witness ==
    /\ chunkPc = "done"
    /\ overlap < size
    /\ \E i \in 1..Len(doc) : doc[i] = SP
    /\ loop.tokens # <<>>
    /\ loop.start_token_idx >= 2 * (size - overlap)
    /\ loop.start_token_idx >= Len(loop.tokens)

====
